---- MODULE Spec2Model ----
(***************************************************************************)
(* Consensus parameters of rust-monacoin (src/consensus/params.rs):        *)
(* the four MAX_BITS_* constants, Params::new and                          *)
(* Params::difficulty_adjustment_interval.                                 *)
(*                                                                         *)
(* A u64 limb of a Uint256 is written as its four 16-bit words, most       *)
(* significant word first, exactly as the hex literal reads:               *)
(*   0x00000fffffffffff  =  <<0x0000, 0x0fff, 0xffff, 0xffff>>             *)
(* A Uint256 is the sequence of its four limbs in the listed order         *)
(* (Uint256([l0, l1, l2, l3]) is <<l0, l1, l2, l3>>, positions 1..4).      *)
(***************************************************************************)
EXTENDS Integers, Sequences, FiniteSets, TLC

VARIABLES heap, status

vars == <<heap, status>>

(* Bounds of the model *)
MaxSets == 2
MaxCalls == 2
MaxSpacing == 2
MaxTimespan == 4

(* enum Network: the four arms of the match in Params::new *)
Network == {"Bitcoin", "Testnet", "Signet", "Regtest"}

(* ---------------- the four pow_limit constants ---------------- *)

MAX_BITS_BITCOIN ==
    << <<65535, 65535, 65535, 65535>>,
       <<65535, 65535, 65535, 65535>>,
       <<65535, 65535, 65535, 65535>>,
       <<0, 4095, 65535, 65535>> >>

MAX_BITS_TESTNET ==
    << <<65535, 65535, 65535, 65535>>,
       <<65535, 65535, 65535, 65535>>,
       <<65535, 65535, 65535, 65535>>,
       <<0, 4095, 65535, 65535>> >>

\* a copy of the Mainnet constant pasted for Signet
MAX_BITS_SIGNET_pasted ==
    << <<65535, 65535, 65535, 65535>>,
       <<65535, 65535, 65535, 65535>>,
       <<65535, 65535, 65535, 65535>>,
       <<0, 4095, 65535, 65535>> >>

MAX_BITS_SIGNET ==
    << <<65535, 65535, 65535, 65535>>,
       <<65535, 65535, 65535, 65535>>,
       <<65535, 65535, 65535, 65535>>,
       <<15, 65535, 65535, 65535>> >>

\* the Regtest limbs written most-significant first
MAX_BITS_REGTEST_reversed ==
    << <<32767, 65280, 0, 0>>,
       <<0, 0, 0, 0>>,
       <<0, 0, 0, 0>>,
       <<0, 0, 0, 0>> >>

MAX_BITS_REGTEST ==
    << <<0, 0, 0, 0>>,
       <<0, 0, 0, 0>>,
       <<0, 0, 0, 0>>,
       <<32767, 65280, 0, 0>> >>

(* ---------------- Params::new, one definition per match arm ---------------- *)

ParamsBitcoin ==
    [ network |-> "Bitcoin",
      bip16_time |-> 0,
      bip34_height |-> 0,
      bip65_height |-> 977759,
      bip66_height |-> 977759,
      rule_change_activation_threshold |-> 7560,
      miner_confirmation_window |-> 10080,
      pow_limit |-> MAX_BITS_BITCOIN,
      pow_target_spacing |-> 90,
      pow_target_timespan |-> 95040,
      allow_min_difficulty_blocks |-> FALSE,
      no_pow_retargeting |-> FALSE,
      switch_lyra2rev2_dgwblock |-> 450000 ]

ParamsTestnet ==
    [ network |-> "Testnet",
      bip16_time |-> 1333238400,
      bip34_height |-> 0,
      bip65_height |-> 0,
      bip66_height |-> 0,
      rule_change_activation_threshold |-> 75,
      miner_confirmation_window |-> 100,
      pow_limit |-> MAX_BITS_TESTNET,
      pow_target_spacing |-> 90,
      pow_target_timespan |-> 95040,
      allow_min_difficulty_blocks |-> TRUE,
      no_pow_retargeting |-> FALSE,
      switch_lyra2rev2_dgwblock |-> 60 ]

ParamsSignet ==
    [ network |-> "Signet",
      bip16_time |-> 1333238400,
      bip34_height |-> 1,
      bip65_height |-> 1,
      bip66_height |-> 1,
      rule_change_activation_threshold |-> 75,
      miner_confirmation_window |-> 100,
      pow_limit |-> MAX_BITS_SIGNET,
      pow_target_spacing |-> 90,
      pow_target_timespan |-> 95040,
      allow_min_difficulty_blocks |-> FALSE,
      no_pow_retargeting |-> FALSE,
      switch_lyra2rev2_dgwblock |-> 1 ]

ParamsRegtest ==
    [ network |-> "Regtest",
      bip16_time |-> 1333238400,
      bip34_height |-> 1,
      bip65_height |-> 1,
      bip66_height |-> 1,
      rule_change_activation_threshold |-> 108,
      miner_confirmation_window |-> 144,
      pow_limit |-> MAX_BITS_REGTEST,
      pow_target_spacing |-> 90,
      pow_target_timespan |-> 95040,
      allow_min_difficulty_blocks |-> TRUE,
      no_pow_retargeting |-> TRUE,
      switch_lyra2rev2_dgwblock |-> 60 ]

\* Signet threshold taken from the "// 95%" comment of its line
Params_new_signet95(network) ==
    CASE network = "Bitcoin" -> ParamsBitcoin
      [] network = "Testnet" -> ParamsTestnet
      [] network = "Signet"  ->
            [ParamsSignet EXCEPT !.rule_change_activation_threshold = 95]
      [] network = "Regtest" -> ParamsRegtest

\* Regtest keeps upstream Bitcoin's timing (10 minutes, two weeks)
Params_new_upstream_timing(network) ==
    CASE network = "Bitcoin" -> ParamsBitcoin
      [] network = "Testnet" -> ParamsTestnet
      [] network = "Signet"  -> ParamsSignet
      [] network = "Regtest" ->
            [ParamsRegtest EXCEPT !.pow_target_spacing = 600,
                                  !.pow_target_timespan = 1209600]

\* Regtest keeps upstream Bitcoin's threshold (1512) with the 144 window
Params_new_upstream_threshold(network) ==
    CASE network = "Bitcoin" -> ParamsBitcoin
      [] network = "Testnet" -> ParamsTestnet
      [] network = "Signet"  -> ParamsSignet
      [] network = "Regtest" ->
            [ParamsRegtest EXCEPT !.rule_change_activation_threshold = 1512]

\* Signet arm copied from the Testnet arm with its flags left as they were
Params_new_signet_flags(network) ==
    CASE network = "Bitcoin" -> ParamsBitcoin
      [] network = "Testnet" -> ParamsTestnet
      [] network = "Signet"  ->
            [ParamsSignet EXCEPT !.allow_min_difficulty_blocks = TRUE]
      [] network = "Regtest" -> ParamsRegtest

\* Regtest arm falling through to the Testnet set
Params_new_fallback(network) ==
    CASE network = "Bitcoin" -> ParamsBitcoin
      [] network = "Testnet" -> ParamsTestnet
      [] network = "Signet"  -> ParamsSignet
      [] network = "Regtest" -> ParamsTestnet

\* match network { ... }
Params_new(network) ==
    CASE network = "Bitcoin" -> ParamsBitcoin
      [] network = "Testnet" -> ParamsTestnet
      [] network = "Signet"  -> ParamsSignet
      [] network = "Regtest" -> ParamsRegtest

(* ---------------- Params::difficulty_adjustment_interval ---------------- *)

\* zero divisor clamped instead of faulting: checked_div(..).unwrap_or(0)
difficulty_adjustment_interval_clamped(self) ==
    IF self.pow_target_spacing = 0
    THEN [kind |-> "value", value |-> 0]
    ELSE [kind |-> "value",
          value |-> self.pow_target_timespan \div self.pow_target_spacing]

\* quotient rounded up instead of truncated
difficulty_adjustment_interval_ceil(self) ==
    IF self.pow_target_spacing = 0
    THEN [kind |-> "panic"]
    ELSE [kind |-> "value",
          value |-> (self.pow_target_timespan + self.pow_target_spacing - 1)
                        \div self.pow_target_spacing]

\* u64 / u64: Rust panics ("attempt to divide by zero") on a zero divisor,
\* otherwise the quotient truncates.  The function returns a plain u64, so
\* the only outcomes are a value or the panic.
difficulty_adjustment_interval(self) ==
    IF self.pow_target_spacing = 0
    THEN [kind |-> "panic"]
    ELSE [kind |-> "value",
          value |-> self.pow_target_timespan \div self.pow_target_spacing]

(* ---------------- the program ---------------- *)

\* heap[i] is one Parameter Set a caller holds: its fields (params), the
\* variant Params::new was called with ("custom" for a struct literal), and
\* the outcomes of the difficulty_adjustment_interval calls made on it, in
\* call order.
Init ==
    /\ heap = <<>>
    /\ status = "running"

\* let p = Params::new(network);
New(network) ==
    /\ status = "running"
    /\ Len(heap) < MaxSets
    /\ heap' = Append(heap, [params |-> Params_new(network),
                             built_for |-> network,
                             results |-> <<>>])
    /\ UNCHANGED status

\* let p = Params { pow_target_spacing: s, pow_target_timespan: t,
\*                  ..Params::new(Network::Bitcoin) };
\* every field of the struct is pub, so a caller can build any set.
Custom(s, t) ==
    /\ status = "running"
    /\ Len(heap) < MaxSets
    /\ heap' = Append(heap, [params |-> [Params_new("Bitcoin") EXCEPT
                                            !.pow_target_spacing = s,
                                            !.pow_target_timespan = t],
                             built_for |-> "custom",
                             results |-> <<>>])
    /\ UNCHANGED status

\* the accessor taking &mut self and caching its result in the set
DifficultyAdjustmentInterval_caching(i) ==
    /\ status = "running"
    /\ i \in DOMAIN heap
    /\ Len(heap[i].results) < MaxCalls
    /\ LET r == difficulty_adjustment_interval(heap[i].params)
       IN /\ heap' = [heap EXCEPT
                        ![i].results = Append(@, r),
                        ![i].params.pow_target_timespan =
                            IF r.kind = "value" THEN r.value ELSE @]
          /\ status' = IF r.kind = "panic" THEN "panicked" ELSE "running"

\* p.difficulty_adjustment_interval()  (takes &self); a panic ends the run
DifficultyAdjustmentInterval(i) ==
    /\ status = "running"
    /\ i \in DOMAIN heap
    /\ Len(heap[i].results) < MaxCalls
    /\ LET r == difficulty_adjustment_interval(heap[i].params)
       IN /\ heap' = [heap EXCEPT ![i].results = Append(@, r)]
          /\ status' = IF r.kind = "panic" THEN "panicked" ELSE "running"

Next ==
    \/ \E network \in Network : New(network)
    \/ \E s \in 0..MaxSpacing, t \in 0..MaxTimespan : Custom(s, t)
    \/ \E i \in 1..MaxSets : DifficultyAdjustmentInterval(i)

Spec == Init /\ [][Next]_vars

(* ---------------- ordering of Uint256 values ---------------- *)

\* u64 < u64 on the word representation of a limb
LimbLt(a, b) ==
    \E k \in 1..4 : a[k] < b[k] /\ \A j \in 1..(k - 1) : a[j] = b[j]

\* Uint256 ordering: the limb at the last position is the most significant
Uint256Lt(a, b) ==
    \E k \in 1..4 : LimbLt(a[k], b[k]) /\ \A j \in (k + 1)..4 : a[j] = b[j]

Uint256Ge(a, b) == ~Uint256Lt(a, b)

(* ---------------- properties ---------------- *)

\* the sets a caller holds that Params::new returned
Built == {i \in DOMAIN heap : heap[i].built_for \in Network}

\* the sets on which difficulty_adjustment_interval has been called
Called == {i \in DOMAIN heap : Len(heap[i].results) > 0}

C2_PowLimitLimbs ==
    \A i \in Built :
        LET l == heap[i].params.pow_limit
            v == heap[i].built_for
            ones == <<65535, 65535, 65535, 65535>>
            zero == <<0, 0, 0, 0>>
        IN /\ Len(l) = 4
           /\ v \in {"Bitcoin", "Testnet"} =>
                 /\ l[1] = ones /\ l[2] = ones /\ l[3] = ones
                 /\ l[4] = <<0, 4095, 65535, 65535>>
           /\ v = "Signet" =>
                 /\ l[1] = ones /\ l[2] = ones /\ l[3] = ones
                 /\ l[4] = <<15, 65535, 65535, 65535>>
           /\ v = "Regtest" =>
                 /\ l[1] = zero /\ l[2] = zero /\ l[3] = zero
                 /\ l[4] = <<32767, 65280, 0, 0>>

C2_Witness ==
    /\ Len(heap) = 2
    /\ heap[1].built_for = "Regtest"
    /\ heap[2].built_for = "Signet"

C4_SignetTightest ==
    \A i, j \in Built :
        LET a == heap[i]
            b == heap[j]
        IN /\ (a.built_for = "Regtest" /\ b.built_for \in {"Bitcoin", "Testnet"})
                 => Uint256Ge(a.params.pow_limit, b.params.pow_limit)
           /\ (a.built_for \in {"Bitcoin", "Testnet"} /\ b.built_for = "Signet")
                 => Uint256Ge(a.params.pow_limit, b.params.pow_limit)

\* C4 amended: Regtest >= Signet >= Main and Test (Signet strictly above
\* both), and Main and Test are equal: Regtest is the loosest, Main and Test
\* the tightest.
C4_MainTestTightest ==
    \A i, j \in Built :
        LET a == heap[i]
            b == heap[j]
        IN /\ (a.built_for = "Regtest" /\ b.built_for # "Regtest")
                 => Uint256Ge(a.params.pow_limit, b.params.pow_limit)
           /\ (a.built_for = "Signet" /\ b.built_for \in {"Bitcoin", "Testnet"})
                 => Uint256Lt(b.params.pow_limit, a.params.pow_limit)
           /\ (a.built_for = "Bitcoin" /\ b.built_for = "Testnet")
                 => a.params.pow_limit = b.params.pow_limit

C4_Witness ==
    /\ Len(heap) = 2
    /\ heap[1].built_for = "Bitcoin"
    /\ heap[2].built_for = "Signet"

C6_FloorDivision ==
    \A i \in Called :
        LET p == heap[i].params
        IN p.pow_target_spacing > 0 =>
              \A k \in DOMAIN heap[i].results :
                 LET r == heap[i].results[k]
                 IN /\ r.kind = "value"
                    /\ r.value * p.pow_target_spacing <= p.pow_target_timespan
                    /\ p.pow_target_timespan < (r.value + 1) * p.pow_target_spacing

C6_Witness ==
    /\ Len(heap) = 2
    /\ heap[1].built_for = "custom" /\ Len(heap[1].results) > 0
    /\ heap[1].params.pow_target_spacing > 1
    /\ heap[1].params.pow_target_timespan % heap[1].params.pow_target_spacing # 0
    /\ heap[2].built_for = "custom" /\ Len(heap[2].results) > 0
    /\ heap[2].params.pow_target_spacing > heap[2].params.pow_target_timespan

\* C7: every set returned by Params::new has
\* 0 < rule_change_activation_threshold <= miner_confirmation_window.
C7_ThresholdWithinWindow ==
    \A i \in Built :
        LET p == heap[i].params
        IN /\ 0 < p.rule_change_activation_threshold
           /\ p.rule_change_activation_threshold <= p.miner_confirmation_window
           /\ p.miner_confirmation_window > 0

C7_Witness ==
    /\ Len(heap) = 2
    /\ heap[1].built_for = "Regtest"
    /\ heap[2].built_for = "Testnet"

\* C8: among the sets returned by Params::new, no_pow_retargeting is set
\* exactly for Regtest and allow_min_difficulty_blocks exactly for Test and
\* Regtest.
C8_Flags ==
    \A i \in Built :
        LET p == heap[i].params
            v == heap[i].built_for
        IN /\ p.no_pow_retargeting = (v = "Regtest")
           /\ p.allow_min_difficulty_blocks = (v \in {"Testnet", "Regtest"})

C8_Witness ==
    /\ Len(heap) = 2
    /\ heap[1].built_for = "Signet"
    /\ heap[2].built_for = "Testnet"

\* C9: Params::new can be called with every variant, and what it returns is
\* a set with every field populated whose network field is the variant
\* passed in.
C9_TotalAndOwnVariant ==
    /\ (status = "running" /\ Len(heap) < MaxSets) =>
          \A v \in Network : ENABLED New(v)
    /\ \A i \in Built :
          LET p == heap[i].params
          IN /\ p.network = heap[i].built_for
             /\ DOMAIN p = {"network", "bip16_time", "bip34_height",
                            "bip65_height", "bip66_height",
                            "rule_change_activation_threshold",
                            "miner_confirmation_window", "pow_limit",
                            "pow_target_spacing", "pow_target_timespan",
                            "allow_min_difficulty_blocks",
                            "no_pow_retargeting", "switch_lyra2rev2_dgwblock"}
             /\ \A f \in {"bip16_time", "bip34_height", "bip65_height",
                          "bip66_height", "rule_change_activation_threshold",
                          "miner_confirmation_window", "pow_target_spacing",
                          "pow_target_timespan", "switch_lyra2rev2_dgwblock"} :
                   p[f] \in Nat
             /\ p.allow_min_difficulty_blocks \in BOOLEAN
             /\ p.no_pow_retargeting \in BOOLEAN
             /\ Len(p.pow_limit) = 4
             /\ \A k \in 1..4 : \A w \in 1..4 : p.pow_limit[k][w] \in 0..65535

C9_Witness ==
    /\ Len(heap) = 2
    /\ heap[1].built_for = "Regtest"
    /\ heap[2].built_for = "Bitcoin"

\* C10: no step changes the fields of a set a caller already holds; all
\* calls made on one set have returned the same result; two sets built for
\* the same variant are equal field for field.
C10_Immutable ==
    [][ /\ \A i \in DOMAIN heap :
              /\ i \in DOMAIN heap'
              /\ heap'[i].params = heap[i].params
        /\ \A i \in DOMAIN heap' :
              \A k, m \in DOMAIN heap'[i].results :
                 heap'[i].results[k] = heap'[i].results[m]
        /\ \A i, j \in DOMAIN heap' :
              (heap'[i].built_for \in Network
                 /\ heap'[i].built_for = heap'[j].built_for)
                 => heap'[i].params = heap'[j].params ]_vars

C10_Witness ==
    /\ Len(heap) = 2
    /\ heap[1].built_for = "Signet"
    /\ heap[2].built_for = "Signet"
    /\ Len(heap[1].results) = 2
    /\ Len(heap[2].results) = 1

====
